---- MODULE Spec2Model ----
(***************************************************************************)
(* Model of bear-index-cards-bulk-avery-scale-title.py: the auto-fit text  *)
(* layout (auto_scale_text, fit_title_font, calculate_footer_font), the    *)
(* card composer (create_card_content) and the sheet layout loop           *)
(* (make_avery5388_pdf).                                                   *)
(*                                                                         *)
(* Units.  Lengths are integers in units of 1/2000 pt (Pt(1) = 2000), so   *)
(* that every quantity the program computes in floating point is exact     *)
(* here.  Font sizes are in half points (Half(10) = 20), because the body  *)
(* and footer searches step by 0.5.  A string is a sequence of runs        *)
(* [len, ch]: len copies of the character ch.  The strings drawn as inputs *)
(* alternate word runs and single-space runs, so a run is exactly one      *)
(* chunk of textwrap's word/whitespace split.                              *)
(***************************************************************************)
EXTENDS Integers, Sequences, FiniteSets, TLC

VARIABLES pc, inp, out, md_files, i, elements, printed

vars == <<pc, inp, out, md_files, i, elements, printed>>

\* ===== PAGE / CARD / FONT / FOOTER SETTINGS (source lines 14-40) =====
inch == 72
CARD_MARGIN == 12
MIN_FONT_SIZE == 6
MAX_TITLE_SIZE == 12
MAX_BODY_SIZE == 10
LINE_SPACING_X10 == 12
FOOTER_HEIGHT == 36
PAGE_COL_WIDTH == 48
MAX_FOOTER_FONT_SIZE == 8
MIN_FOOTER_FONT_SIZE == 6
TEXT_CAP == 2000
SLOTS_PER_PAGE == 3

Pt(x) == x * 2000
Half(size) == 2 * size

CARD_WIDTH == 5 * Pt(inch)
CARD_HEIGHT == 3 * Pt(inch)
CONTENT_WIDTH == CARD_WIDTH - 2 * Pt(CARD_MARGIN)
CONTENT_HEIGHT == CARD_HEIGHT - 2 * Pt(CARD_MARGIN)
TITLE_FONT_NAME == "Helvetica-Bold"
BODY_FONT_NAME == "Helvetica"

\* font_size * LINE_SPACING, font_size in half points: hp/2 * 1.2 pt.
LineHeight(font_size) == font_size * LINE_SPACING_X10 * 100

\* ===== helpers =====
\* Python int(a / b) for b > 0: truncation toward zero.
IntDiv(a, b) == IF a >= 0 THEN a \div b ELSE -((-a) \div b)

Min2(a, b) == IF a <= b THEN a ELSE b

\* Python seq[:k]
Take(seq, k) ==
    LET n == IF k >= 0 THEN Min2(k, Len(seq))
             ELSE IF Len(seq) + k > 0 THEN Len(seq) + k ELSE 0
    IN SubSeq(seq, 1, n)

Run(n, c) == [len |-> n, ch |-> c]

RECURSIVE StrLen(_)
StrLen(s) == IF s = <<>> THEN 0 ELSE Head(s).len + StrLen(Tail(s))

\* Python s[:n] on a run-encoded string.
RECURSIVE Slice(_, _)
Slice(s, n) ==
    IF s = <<>> \/ n <= 0 THEN <<>>
    ELSE IF Head(s).len <= n THEN <<Head(s)>> \o Slice(Tail(s), n - Head(s).len)
    ELSE <<Run(n, Head(s).ch)>>

\* ===== Font Metrics Provider: pdfmetrics.stringWidth =====
\* Glyph advance widths (1/1000 em) of the two standard fonts the program names.
GlyphWidth(font, c) ==
    IF font = "Helvetica-Bold"
    THEN CASE c = " " -> 278 [] c = "i" -> 278 [] c = "<" -> 584 [] c = "n" -> 611
           [] c = "W" -> 944
           [] OTHER -> 611
    ELSE CASE c = " " -> 278 [] c = ":" -> 278 [] c = "i" -> 222 [] c = "r" -> 333
           [] c = "c" -> 500 [] c = "n" -> 556 [] c = "o" -> 556 [] c = "u" -> 556
           [] c = "e" -> 556 [] c = "a" -> 556 [] c = "g" -> 556 [] c = "0" -> 556
           [] c = "k" -> 500 [] c = "<" -> 584 [] c = "S" -> 667 [] c = "P" -> 667
           [] c = "U" -> 722 [] c = "w" -> 722 [] c = "W" -> 944
           [] OTHER -> 556

RECURSIVE EmSum(_, _)
EmSum(s, font) ==
    IF s = <<>> THEN 0
    ELSE Head(s).len * GlyphWidth(font, Head(s).ch) + EmSum(Tail(s), font)

\* stringWidth(text, font, size) = 0.001 * size * sum of glyph widths, in 1/2000 pt
\* with size in half points.
stringWidth(s, font, font_size) == EmSum(s, font) * font_size

\* ===== textwrap.wrap(text, width) with the library defaults =====
\* chunk.strip() == ''
IsBlank(c) == c.ch = " " \/ c.len = 0

\* inner while of _wrap_chunks: take chunks while they fit the line.
RECURSIVE FillLine(_, _, _, _)
FillLine(chunks, cur_line, cur_len, width) ==
    IF chunks # <<>> /\ cur_len + Head(chunks).len <= width
    THEN FillLine(Tail(chunks), Append(cur_line, Head(chunks)),
                  cur_len + Head(chunks).len, width)
    ELSE [chunks |-> chunks, cur_line |-> cur_line, cur_len |-> cur_len]

\* _handle_long_word with break_long_words = True: the first space_left
\* characters of the over-long chunk go on the current line.
HandleLongWord(st, width) ==
    LET space_left == IF width < 1 THEN 1 ELSE width - st.cur_len
        chunk == Head(st.chunks)
    IN [chunks |-> <<Run(chunk.len - space_left, chunk.ch)>> \o Tail(st.chunks),
        cur_line |-> Append(st.cur_line, Run(space_left, chunk.ch)),
        cur_len |-> st.cur_len + space_left]

DropTrailingBlank(cur_line) ==
    IF cur_line # <<>> /\ IsBlank(cur_line[Len(cur_line)])
    THEN SubSeq(cur_line, 1, Len(cur_line) - 1)
    ELSE cur_line

\* outer while of _wrap_chunks: one line per round.  The rounds that start
\* with a chunk longer than the width each emit one line holding `width`
\* characters of it (the inner while takes nothing, _handle_long_word slices
\* with space_left = width); they are taken together, k rounds at once, until
\* what is left of the chunk fits a line.
RECURSIVE WrapChunks(_, _, _)
WrapChunks(chunks, lines, width) ==
    IF chunks = <<>> THEN lines
    ELSE LET start == IF IsBlank(Head(chunks)) /\ lines # <<>>
                      THEN Tail(chunks) ELSE chunks
             filled == FillLine(start, <<>>, 0, width)
             broken == IF filled.chunks # <<>> /\ Head(filled.chunks).len > width
                       THEN HandleLongWord(filled, width) ELSE filled
             cur_line == DropTrailingBlank(broken.cur_line)
         IN IF start # <<>> /\ Head(start).len > width /\ width >= 1
            THEN LET k == (Head(start).len - 1) \div width
                     c == Head(start).ch
                 IN WrapChunks(<<Run(Head(start).len - k * width, c)>> \o Tail(start),
                               lines \o [j \in 1..k |-> <<Run(width, c)>>],
                               width)
            ELSE WrapChunks(broken.chunks,
                            IF cur_line # <<>> THEN Append(lines, cur_line) ELSE lines,
                            width)

\* wrap(text, width), width >= 1 (width <= 0 raises ValueError, see auto_scale_text).
wrap(text, width) == WrapChunks(text, <<>>, width)

\* ===== auto_scale_text =====
Raised == [exc |-> "ValueError", size |-> 0, lines |-> <<>>]
Return(font_size, wrapped) == [exc |-> "none", size |-> font_size, lines |-> wrapped]

\* First size the while loop tries.
BodyStart == Half(MAX_BODY_SIZE)

\* Mutant of HeightFits: a block that fills the box exactly is rejected.
HeightFitsStrict(needed_height, max_height) == needed_height < max_height

\* The return test of the loop body.
HeightFits(needed_height, max_height) == needed_height <= max_height

\* Mutant of Fallback: the wrapped list is returned uncut.
FallbackNoCut(text, max_width, max_height, avg_char_width) ==
    Return(Half(MIN_FONT_SIZE), wrap(text, IntDiv(max_width, avg_char_width)))

\* Lines 60-62: wrap at the character width left by the last loop round and keep
\* the first int(max_height / (MIN_FONT_SIZE * LINE_SPACING)) lines.
Fallback(text, max_width, max_height, avg_char_width) ==
    Return(Half(MIN_FONT_SIZE),
           Take(wrap(text, IntDiv(max_width, avg_char_width)),
                IntDiv(max_height, LineHeight(Half(MIN_FONT_SIZE)))))

\* Lines 48-58: the while loop, font_size the loop variable, avg_char_width the
\* value the variable holds when the round starts.
RECURSIVE ScaleLoop(_, _, _, _, _)
ScaleLoop(text, max_width, max_height, font_size, avg_prev) ==
    IF font_size >= Half(MIN_FONT_SIZE)
    THEN LET avg_char_width == stringWidth(<<Run(1, "n")>>, BODY_FONT_NAME, font_size)
             chars_per_line == IntDiv(max_width, avg_char_width)
         IN IF chars_per_line <= 0 THEN Raised
            ELSE LET wrapped == wrap(Slice(text, TEXT_CAP), chars_per_line)
                     needed_height == Len(wrapped) * LineHeight(font_size)
                 IN IF HeightFits(needed_height, max_height)
                    THEN Return(font_size, wrapped)
                    ELSE ScaleLoop(text, max_width, max_height, font_size - 1,
                                   avg_char_width)
    ELSE Fallback(text, max_width, max_height, avg_prev)

auto_scale_text(text, max_width, max_height) ==
    ScaleLoop(text, max_width, max_height, BodyStart, 0)

\* ===== fit_title_font =====
RECURSIVE TitleLoop(_, _, _)
TitleLoop(title, max_width, font_size) ==
    IF font_size >= Half(MIN_FONT_SIZE)
    THEN IF stringWidth(title, TITLE_FONT_NAME, font_size) <= max_width
         THEN font_size
         ELSE TitleLoop(title, max_width, font_size - Half(1))
    ELSE Half(MIN_FONT_SIZE)

\* Mutant of fit_title_font: the search starts at the body maximum.
fit_title_font_from_body(title, max_width) ==
    TitleLoop(title, max_width, Half(MAX_BODY_SIZE))

fit_title_font(title, max_width) == TitleLoop(title, max_width, Half(MAX_TITLE_SIZE))

\* ===== calculate_footer_font =====
\* Mutant of FooterFits: the page column is not tested.
FooterFitsSourceOnly(source_text, page_text, font_size) ==
    stringWidth(source_text, BODY_FONT_NAME, font_size)
        <= CONTENT_WIDTH - Pt(PAGE_COL_WIDTH) - Pt(6)

FooterFits(source_text, page_text, font_size) ==
    LET source_width == stringWidth(source_text, BODY_FONT_NAME, font_size)
        page_width == stringWidth(page_text, BODY_FONT_NAME, font_size)
        available_source_width == CONTENT_WIDTH - Pt(PAGE_COL_WIDTH) - Pt(6)
    IN source_width <= available_source_width /\ page_width <= Pt(PAGE_COL_WIDTH)

RECURSIVE FooterLoop(_, _, _)
FooterLoop(source_text, page_text, font_size) ==
    IF font_size >= Half(MIN_FOOTER_FONT_SIZE)
    THEN IF FooterFits(source_text, page_text, font_size)
         THEN font_size
         ELSE FooterLoop(source_text, page_text, font_size - 1)
    ELSE Half(MIN_FOOTER_FONT_SIZE)

calculate_footer_font(source_text, page_text) ==
    FooterLoop(source_text, page_text, Half(MAX_FOOTER_FONT_SIZE))

\* ===== create_card_content =====
Str(word) == [k \in 1..Len(word) |-> Run(1, word[k])]
SourceLabel == Str(<<"S", "o", "u", "r", "c", "e", ":", " ">>)
PageLabel == Str(<<"P", "a", "g", "e", ":", " ">>)
Unknown == Str(<<"U", "n", "k", "n", "o", "w", "n">>)

HasCh(s, c) == \E k \in 1..Len(s) : s[k].ch = c /\ s[k].len > 0

\* Paragraph(markup, style) parses its text as markup and raises ValueError on
\* text it cannot parse; here: text holding a bare "<".
ParagraphRaises(s) == HasCh(s, "<")

LinesRaise(lines) == \E k \in 1..Len(lines) : ParagraphRaises(lines[k])

\* Line 94.
ParaAvailableHeight(title_height) ==
    CONTENT_HEIGHT - title_height - Pt(12) - Pt(FOOTER_HEIGHT)

\* Line 99.
BodyFontSize(quote_font, analysis_font) == Min2(quote_font, analysis_font)

CardRaised == [exc |-> "ValueError", kind |-> "card"]

create_card_content(card_title, quote, analysis, source, page_number) ==
    LET title_font_size == fit_title_font(card_title, CONTENT_WIDTH)
        title_height == LineHeight(title_font_size) + Pt(6)
        para_available_height == ParaAvailableHeight(title_height)
        q == auto_scale_text(quote, CONTENT_WIDTH, para_available_height \div 2)
        a == auto_scale_text(analysis, CONTENT_WIDTH, para_available_height \div 2)
        body_font_size == BodyFontSize(q.size, a.size)
        source_text == SourceLabel \o source
        page_text == PageLabel \o page_number
        footer_font_size == calculate_footer_font(source_text, page_text)
    IN IF q.exc # "none" \/ a.exc # "none" THEN CardRaised
       ELSE IF \/ ParagraphRaises(card_title) \/ LinesRaise(q.lines)
               \/ LinesRaise(a.lines) \/ ParagraphRaises(source)
               \/ ParagraphRaises(page_number)
       THEN CardRaised
       ELSE [exc |-> "none", kind |-> "card",
             card_title |-> card_title,
             title_font_size |-> title_font_size,
             title_height |-> title_height,
             para_available_height |-> para_available_height,
             quote_font |-> q.size, quote_content |-> q.lines,
             analysis_font |-> a.size, analysis_content |-> a.lines,
             body_font_size |-> body_font_size,
             footer_font_size |-> footer_font_size]

\* ===== parse_markdown =====
\* A document is what MarkdownAnalyzer reports of it: its headers (each header
\* text tokenised as lead word, digit string, dash, rest), its first
\* paragraph's [[source]] link ("none" when absent), its first blockquote and
\* its "**Analysis:**" paragraph (both "none" when absent).
Absent == <<Run(0, "none")>>
OrEmpty(s) == IF s = Absent THEN <<>> ELSE s

\* re.match(r'Page\s*(\d+)\s*-\s*(.*)', header_text)
PageMatch(header) == header.lead = "Page" /\ header.digits # <<>> /\ header.dash

ParseRaised(msg) == [exc |-> msg]

parse_markdown(doc) ==
    IF doc.headers = <<>> THEN ParseRaised("No headers found")
    ELSE IF ~PageMatch(doc.headers[1]) THEN ParseRaised("Header format error")
    ELSE [exc |-> "none",
          card_title |-> doc.headers[1].rest,
          quote |-> OrEmpty(doc.blockquote),
          analysis |-> OrEmpty(doc.analysis),
          source |-> IF doc.source = Absent THEN Unknown ELSE doc.source,
          page_number |-> doc.headers[1].digits]

\* ===== make_avery5388_pdf =====
PageBreak == [exc |-> "none", kind |-> "PageBreak"]

IsMd(f) == f.ext = "md"

RECURSIVE SortNames(_)
SortNames(S) ==
    IF S = {} THEN <<>>
    ELSE LET m == CHOOSE x \in S : \A y \in S : x <= y
         IN <<m>> \o SortNames(S \ {m})

\* Line 246: sorted([f for f in os.listdir(md_dir) if f.endswith('.md')])
SortedMdFiles(dir) == SortNames({n \in DOMAIN dir : IsMd(dir[n])})

\* Line 252: the page-break test of the loop body, idx the enumerate index.
BreakDue(idx) == (idx + 1) % SLOTS_PER_PAGE = 0

\* Mutant of LoopBody: the page break is appended outside the try block, so a
\* skipped file still adds one when its index is due.
LoopBodyBreakOutsideTry(elems, prn, idx, md_file, doc) ==
    LET card_data == parse_markdown(doc)
        card == IF card_data.exc # "none" THEN CardRaised
                ELSE create_card_content(card_data.card_title, card_data.quote,
                                         card_data.analysis, card_data.source,
                                         card_data.page_number)
        after == IF card.exc # "none" THEN elems
                 ELSE Append(elems, [card EXCEPT !.kind = "card"] @@ [file |-> md_file])
    IN [elements |-> IF BreakDue(idx) THEN Append(after, PageBreak) ELSE after,
        printed |-> IF card.exc # "none"
                    THEN Append(prn, [file |-> md_file, msg |-> card.exc])
                    ELSE prn]

\* Lines 248-255: one round of the for loop on file md_file with index idx.
LoopBody(elems, prn, idx, md_file, doc) ==
    LET card_data == parse_markdown(doc)
        card == IF card_data.exc # "none" THEN CardRaised
                ELSE create_card_content(card_data.card_title, card_data.quote,
                                         card_data.analysis, card_data.source,
                                         card_data.page_number)
    IN IF card_data.exc # "none"
       THEN [elements |-> elems,
             printed |-> Append(prn, [file |-> md_file, msg |-> card_data.exc])]
       ELSE IF card.exc # "none"
       THEN [elements |-> elems,
             printed |-> Append(prn, [file |-> md_file, msg |-> card.exc])]
       ELSE LET withCard == Append(elems, [card EXCEPT !.kind = "card"] @@ [file |-> md_file])
            IN [elements |-> IF BreakDue(idx) THEN Append(withCard, PageBreak)
                             ELSE withCard,
                printed |-> prn]

\* Lines 256-257.
PopTrailingBreak(elems) ==
    IF elems # <<>> /\ elems[Len(elems)].kind = "PageBreak"
    THEN SubSeq(elems, 1, Len(elems) - 1)
    ELSE elems

\* ===== bounds and input sets =====
MaxWords == 3
MaxFiles == 5

NoResult == [exc |-> "pending"]

\* Words of one repeated character: "n" is the reference character of
\* auto_scale_text, "W" is wider than it.
Words == {Run(1, "n"), Run(2, "n"), Run(6, "n"), Run(3, "W")}

RECURSIVE Join(_)
Join(ws) ==
    IF Len(ws) <= 1 THEN ws
    ELSE <<Head(ws), Run(1, " ")>> \o Join(Tail(ws))

WordSeqs == UNION {[1..n -> Words] : n \in 0..MaxWords}
SmallTexts == {Join(ws) : ws \in WordSeqs}

\* Texts of card size, some longer than the 2000 character cap.
BigTexts == {<<Run(n, "n")>> : n \in {300, 1900, 2100, 5000}}
                \cup {<<Run(1990, "n"), Run(1, " "), Run(400, "n")>>,
                      Join([k \in 1..5 |-> Run(60, "n")]),
                      <<Run(40, "W")>>}

\* Widths 1 pt above a multiple of the width of "n" at 10 pt (5.56 pt), so that
\* the character budget at 10 pt is 1, 2, 5, 6, 9; and one width below 5.56 pt.
NWidth == stringWidth(<<Run(1, "n")>>, BODY_FONT_NAME, Half(MAX_BODY_SIZE))
SmallWidths == {k * NWidth + Pt(1) : k \in {1, 2, 5, 6, 9}}
SmallHeights == {Pt(5), Pt(12), Pt(24), Pt(30), Pt(50)}
BigWidths == {Pt(300), CONTENT_WIDTH}
BigHeights == {Pt(50), Pt(300),
               ParaAvailableHeight(LineHeight(Half(MAX_TITLE_SIZE)) + Pt(6)) \div 2}

FitInputs ==
    [text : SmallTexts, max_width : SmallWidths \cup {Pt(4)}, max_height : SmallHeights]
        \cup [text : BigTexts, max_width : BigWidths, max_height : BigHeights]

PairInputs ==
    {p \in [text : SmallTexts, w1 : SmallWidths, w2 : SmallWidths,
            max_height : SmallHeights] : p.w1 <= p.w2}

Rep(n, c) == IF n = 0 THEN <<>> ELSE <<Run(n, c)>>
Titles == {Rep(n, c) : n \in {0, 9, 45, 46, 55, 70, 92, 120}, c \in {"n", "i"}}
TitleWidths == {CONTENT_WIDTH, Pt(300), Pt(200), Pt(150), Pt(0)}
TitleInputs == [title : Titles, max_width : TitleWidths]

Sources == {SourceLabel \o Rep(n, "n") : n \in {0, 7, 56, 57, 60, 64, 70, 77, 90}}
Pages == {PageLabel \o <<Run(n, "0")>> : n \in {1, 3, 5, 6, 7, 8, 9, 12}}
FooterInputs == [source_text : Sources, page_text : Pages]

CardTitles == {<<Run(n, "n")>> : n \in {9, 46, 60, 92}}
CardBodies == {<<>>, Join(<<Run(5, "n"), Run(6, "n")>>), <<Run(40, "W")>>,
               <<Run(300, "n")>>, <<Run(420, "n")>>, <<Run(2100, "n")>>,
               Join([k \in 1..5 |-> Run(60, "n")])}
CardInputs ==
    [card_title : CardTitles, quote : CardBodies, analysis : CardBodies,
     source : {Unknown, <<Run(70, "n")>>}, page_number : {<<Run(2, "0")>>}]

\* Documents of the input folder.
Header(lead, digits, dash, rest) ==
    [lead |-> lead, digits |-> digits, dash |-> dash, rest |-> rest]
DocValid ==
    [headers |-> <<Header("Page", <<Run(2, "0")>>, TRUE, <<Run(9, "n")>>)>>,
     source |-> <<Run(7, "n")>>,
     blockquote |-> Join(<<Run(5, "n"), Run(6, "n")>>),
     analysis |-> Join(<<Run(5, "n"), Run(6, "n"), Run(6, "n")>>)]
DocBare ==
    [headers |-> <<Header("Page", <<Run(1, "0")>>, TRUE, <<Run(9, "n")>>)>>,
     source |-> Absent, blockquote |-> Absent, analysis |-> Absent]
DocNoHeaders == [DocValid EXCEPT !.headers = <<>>]
DocBadHeader ==
    [DocValid EXCEPT !.headers = <<Header("Chapter", <<Run(1, "0")>>, TRUE, <<Run(9, "n")>>)>>]
DocBadMarkup ==
    [DocValid EXCEPT !.headers = <<Header("Page", <<Run(1, "0")>>, TRUE, <<Run(1, "<")>>)>>]
Docs == {DocValid, DocBare, DocNoHeaders, DocBadHeader, DocBadMarkup}

File(ext, doc) == [ext |-> ext, doc |-> doc]
Files == {File("md", d) : d \in Docs \ {DocBare}} \cup {File("txt", DocValid)}
Dirs == UNION {[1..n -> Files] : n \in 0..MaxFiles} \cup {[k \in 1..2 |-> File("md", DocBare)]}

\* ===== the pure functions, applied to drawn inputs =====
Idle == md_files = <<>> /\ i = 0 /\ elements = <<>> /\ printed = <<>>

InitFit == pc = "auto_scale_text" /\ inp \in FitInputs /\ out = NoResult /\ Idle
CallAutoScale ==
    /\ pc = "auto_scale_text"
    /\ out' = auto_scale_text(inp.text, inp.max_width, inp.max_height)
    /\ pc' = "done"
    /\ UNCHANGED <<inp, md_files, i, elements, printed>>
SpecFit == InitFit /\ [][CallAutoScale]_vars

InitPair == pc = "auto_scale_text_pair" /\ inp \in PairInputs /\ out = NoResult /\ Idle
CallAutoScalePair ==
    /\ pc = "auto_scale_text_pair"
    /\ out' = [exc |-> "none",
               narrow |-> auto_scale_text(inp.text, inp.w1, inp.max_height),
               wide |-> auto_scale_text(inp.text, inp.w2, inp.max_height)]
    /\ pc' = "done"
    /\ UNCHANGED <<inp, md_files, i, elements, printed>>
SpecPair == InitPair /\ [][CallAutoScalePair]_vars

InitTitle == pc = "fit_title_font" /\ inp \in TitleInputs /\ out = NoResult /\ Idle
CallFitTitle ==
    /\ pc = "fit_title_font"
    /\ out' = [exc |-> "none", size |-> fit_title_font(inp.title, inp.max_width)]
    /\ pc' = "done"
    /\ UNCHANGED <<inp, md_files, i, elements, printed>>
SpecTitle == InitTitle /\ [][CallFitTitle]_vars

InitFooter == pc = "calculate_footer_font" /\ inp \in FooterInputs /\ out = NoResult /\ Idle
CallFooterFont ==
    /\ pc = "calculate_footer_font"
    /\ out' = [exc |-> "none",
               size |-> calculate_footer_font(inp.source_text, inp.page_text)]
    /\ pc' = "done"
    /\ UNCHANGED <<inp, md_files, i, elements, printed>>
SpecFooter == InitFooter /\ [][CallFooterFont]_vars

InitCard == pc = "create_card_content" /\ inp \in CardInputs /\ out = NoResult /\ Idle
CallCreateCard ==
    /\ pc = "create_card_content"
    /\ out' = create_card_content(inp.card_title, inp.quote, inp.analysis, inp.source,
                                  inp.page_number)
    /\ pc' = "done"
    /\ UNCHANGED <<inp, md_files, i, elements, printed>>
SpecCard == InitCard /\ [][CallCreateCard]_vars

\* ===== make_avery5388_pdf as a state machine =====
Init ==
    /\ pc = "listdir"
    /\ inp \in [dir : Dirs]
    /\ out = NoResult
    /\ Idle

\* Lines 245-246.
ListFiles ==
    /\ pc = "listdir"
    /\ md_files' = SortedMdFiles(inp.dir)
    /\ i' = 0
    /\ elements' = <<>>
    /\ pc' = "loop"
    /\ UNCHANGED <<inp, out, printed>>

\* Lines 247-255: one round of the for loop.
ProcessFile ==
    /\ pc = "loop"
    /\ i < Len(md_files)
    /\ LET md_file == md_files[i + 1]
           r == LoopBody(elements, printed, i, md_file, inp.dir[md_file].doc)
       IN /\ elements' = r.elements
          /\ printed' = r.printed
    /\ i' = i + 1
    /\ UNCHANGED <<pc, inp, out, md_files>>

\* Lines 256-258: drop a trailing page break and hand the list to doc.build.
Build ==
    /\ pc = "loop"
    /\ i = Len(md_files)
    /\ elements' = PopTrailingBreak(elements)
    /\ out' = [exc |-> "none", built |-> PopTrailingBreak(elements)]
    /\ pc' = "done"
    /\ UNCHANGED <<inp, md_files, i, printed>>

Next == ListFiles \/ ProcessFile \/ Build

Spec == Init /\ [][Next]_vars

\* ===== properties of auto_scale_text =====
BodyGrid == Half(MIN_FONT_SIZE)..Half(MAX_BODY_SIZE)
CharBudget(w, s) == IntDiv(w, stringWidth(<<Run(1, "n")>>, BODY_FONT_NAME, s))
BudgetOk(w) == \A s \in BodyGrid : CharBudget(w, s) >= 1
CappedLines(text, w, s) == wrap(Slice(text, TEXT_CAP), CharBudget(w, s))
FittingSizes(text, w, h) ==
    {s \in BodyGrid : Len(CappedLines(text, w, s)) * LineHeight(s) <= h}
Largest(S) == CHOOSE s \in S : \A t \in S : t <= s
BlockHeight(r) == Len(r.lines) * LineHeight(r.size)
FitDone == pc = "done" /\ BudgetOk(inp.max_width)

\* C1: auto_scale_text returns a size of the grid 10, 9.5, ..., 6; when some
\* grid size passes the height test (on the text capped at 2000 characters, as
\* the loop wraps it) the result is the largest such size with the greedy wrap
\* at that size, and the block's computed height is at most max_height.
C1_MaximalFit ==
    FitDone =>
        LET fit == FittingSizes(inp.text, inp.max_width, inp.max_height)
        IN /\ out.exc = "none"
           /\ out.size \in BodyGrid
           /\ fit # {} =>
                /\ out.size = Largest(fit)
                /\ out.lines = CappedLines(inp.text, inp.max_width, out.size)
                /\ BlockHeight(out) <= inp.max_height

C1_Witness ==
    /\ FitDone
    /\ out.size \in FittingSizes(inp.text, inp.max_width, inp.max_height)
    /\ out.size > Half(MIN_FONT_SIZE)
    /\ out.size < Half(MAX_BODY_SIZE)
    /\ Len(out.lines) >= 2

\* C5: when no grid size passes the height test, the result is MIN_FONT_SIZE,
\* the text is wrapped with the character budget of MIN_FONT_SIZE and cut to its
\* first floor(max_height / (MIN_FONT_SIZE * 1.2)) lines, so the line count is
\* bounded by that number and the block's height at MIN_FONT_SIZE is at most
\* max_height.
C5_FallbackTruncates ==
    (FitDone /\ FittingSizes(inp.text, inp.max_width, inp.max_height) = {}) =>
        LET lineCap == inp.max_height \div LineHeight(Half(MIN_FONT_SIZE))
            atMin == wrap(inp.text, CharBudget(inp.max_width, Half(MIN_FONT_SIZE)))
        IN /\ out.exc = "none"
           /\ out.size = Half(MIN_FONT_SIZE)
           /\ out.lines = SubSeq(atMin, 1, Min2(lineCap, Len(atMin)))
           /\ Len(out.lines) <= lineCap
           /\ BlockHeight(out) <= inp.max_height

C5_Witness ==
    /\ FitDone
    /\ FittingSizes(inp.text, inp.max_width, inp.max_height) = {}
    /\ StrLen(inp.text) > TEXT_CAP
    /\ Len(out.lines) >= 1
    /\ Len(out.lines) < Len(wrap(inp.text, CharBudget(inp.max_width, Half(MIN_FONT_SIZE))))

\* C7: when the result is not the truncated fallback, the measured width of
\* every returned line at the chosen size is at most max_width.
C7_LinesFitWidth ==
    (/\ pc = "done" /\ out.exc = "none"
     /\ inp.max_width > 0 /\ inp.max_height > 0
     /\ FittingSizes(inp.text, inp.max_width, inp.max_height) # {}) =>
        \A k \in 1..Len(out.lines) :
            stringWidth(out.lines[k], BODY_FONT_NAME, out.size) <= inp.max_width

\* C6: for a fixed text and max_height and widths w1 <= w2, the size returned
\* for w1 is at most the size returned for w2.
C6_WidthMonotone ==
    (pc = "done" /\ inp.w1 <= inp.w2 /\ BudgetOk(inp.w1) /\ BudgetOk(inp.w2)) =>
        out.narrow.size <= out.wide.size

\* ===== properties of fit_title_font =====
TitleGrid == {Half(s) : s \in MIN_FONT_SIZE..MAX_TITLE_SIZE}
TitleFitting(title, w) ==
    {s \in TitleGrid : stringWidth(title, TITLE_FONT_NAME, s) <= w}

\* C8: fit_title_font returns the largest whole size in 12, 11, ..., 6 at which
\* the full title's measured width is at most max_width, and MIN_FONT_SIZE when
\* there is none; the result is within [6, 12].
C8_TitleLargestFit ==
    pc = "done" =>
        LET fit == TitleFitting(inp.title, inp.max_width)
        IN /\ out.size \in TitleGrid
           /\ Half(MIN_FONT_SIZE) <= out.size /\ out.size <= Half(MAX_TITLE_SIZE)
           /\ fit # {} => out.size = Largest(fit)
           /\ fit = {} => out.size = Half(MIN_FONT_SIZE)

C8_Witness ==
    /\ pc = "done"
    /\ out.size \in TitleFitting(inp.title, inp.max_width)
    /\ out.size < Half(MAX_TITLE_SIZE)
    /\ out.size > Half(MIN_FONT_SIZE)

\* ===== properties of calculate_footer_font =====
FooterGrid == Half(MIN_FOOTER_FONT_SIZE)..Half(MAX_FOOTER_FONT_SIZE)
BothFit(source_text, page_text, s) ==
    /\ stringWidth(source_text, BODY_FONT_NAME, s)
          <= CONTENT_WIDTH - Pt(PAGE_COL_WIDTH) - Pt(6)
    /\ stringWidth(page_text, BODY_FONT_NAME, s) <= Pt(PAGE_COL_WIDTH)
FooterFitting(source_text, page_text) ==
    {s \in FooterGrid : BothFit(source_text, page_text, s)}

\* C9: calculate_footer_font returns the largest half-unit size in 8, 7.5, 7,
\* 6.5, 6 at which the source fits CONTENT_WIDTH - PAGE_COL_WIDTH - 6 and the page
\* fits PAGE_COL_WIDTH, both at that size; 8 when both fit at 8; 6 when no size
\* satisfies both.
C9_FooterLargestJointFit ==
    pc = "done" =>
        LET fit == FooterFitting(inp.source_text, inp.page_text)
        IN /\ out.size \in FooterGrid
           /\ fit # {} => out.size = Largest(fit)
           /\ Half(MAX_FOOTER_FONT_SIZE) \in fit => out.size = Half(MAX_FOOTER_FONT_SIZE)
           /\ fit = {} => out.size = Half(MIN_FOOTER_FONT_SIZE)

\* The page string alone decides: the source would fit at a larger size.
C9_Witness ==
    /\ pc = "done"
    /\ out.size \in FooterFitting(inp.source_text, inp.page_text)
    /\ out.size < Half(MAX_FOOTER_FONT_SIZE)
    /\ stringWidth(inp.source_text, BODY_FONT_NAME, Half(MAX_FOOTER_FONT_SIZE))
          <= CONTENT_WIDTH - Pt(PAGE_COL_WIDTH) - Pt(6)

\* ===== properties of create_card_content =====
\* C10: with body size b = min(quote size, analysis size), quote lines * b * 1.2
\* plus the 6 pt spacer plus analysis lines * b * 1.2 is at most
\* para_available_height.
C10_BodyWithinRegion ==
    (pc = "done" /\ out.exc = "none") =>
        LET b == Min2(out.quote_font, out.analysis_font)
        IN Len(out.quote_content) * LineHeight(b) + Pt(6)
              + Len(out.analysis_content) * LineHeight(b)
           <= out.para_available_height

\* ===== properties of make_avery5388_pdf =====
IsCard(e) == e.kind = "card"
IsBreak(e) == e.kind = "PageBreak"
CardsOf(elems) == SelectSeq(elems, IsCard)
BreaksOf(elems) == SelectSeq(elems, IsBreak)
FilesOf(seq) == [k \in 1..Len(seq) |-> seq[k].file]

\* C2: with L cards in the list handed to the renderer, the list holds
\* floor((L-1)/3) page breaks when L > 0 and none when L = 0, and does not end
\* with a page break.
C2_BreakCount ==
    pc = "done" =>
        LET L == Len(CardsOf(out.built))
        IN /\ Len(BreaksOf(out.built)) = IF L > 0 THEN (L - 1) \div SLOTS_PER_PAGE ELSE 0
           /\ out.built # <<>> => ~IsBreak(out.built[Len(out.built)])

\* C3: every page break of the list is preceded by exactly 3 cards since the
\* previous page break or the start, and no run of cards is longer than 3.
C3_BreakAfterEveryThird ==
    pc = "done" =>
        LET e == out.built
        IN /\ \A k \in 1..Len(e) : IsBreak(e[k]) =>
                 /\ k > SLOTS_PER_PAGE
                 /\ \A j \in (k - SLOTS_PER_PAGE)..(k - 1) : IsCard(e[j])
                 /\ k - SLOTS_PER_PAGE - 1 >= 1 => IsBreak(e[k - SLOTS_PER_PAGE - 1])
           /\ \A k \in 1..(Len(e) - SLOTS_PER_PAGE) :
                 ~ \A j \in k..(k + SLOTS_PER_PAGE) : IsCard(e[j])

Composes(doc) ==
    LET d == parse_markdown(doc)
    IN /\ d.exc = "none"
       /\ create_card_content(d.card_title, d.quote, d.analysis, d.source,
                              d.page_number).exc = "none"
Increasing(seq) == \A k \in 1..(Len(seq) - 1) : seq[k] < seq[k + 1]

\* C4: a file whose parse or composition raises adds no element (no card, no
\* page break) and exactly one skip diagnostic; the run goes on with the files
\* after it; the cards of the final list are the files that succeeded, one card
\* each, in sorted file-name order.
C4_SkipRecovery ==
    pc \in {"loop", "done"} =>
        LET seen == SubSeq(md_files, 1, i)
            ok == {f \in {md_files[k] : k \in 1..i} : Composes(inp.dir[f].doc)}
            FileOk(f) == f \in ok
            FileFails(f) == f \notin ok
            due == {k \in 1..i : FileOk(md_files[k]) /\ k % SLOTS_PER_PAGE = 0}
        IN /\ FilesOf(CardsOf(elements)) = SelectSeq(seen, FileOk)
           /\ FilesOf(printed) = SelectSeq(seen, FileFails)
           /\ pc = "loop" => Len(elements) = Cardinality(ok) + Cardinality(due)
           /\ Increasing(md_files)
           /\ {md_files[k] : k \in 1..Len(md_files)}
                 = {f \in DOMAIN inp.dir : IsMd(inp.dir[f])}
           /\ pc = "done" =>
                /\ i = Len(md_files)
                /\ CardsOf(out.built) = CardsOf(elements)
                /\ Increasing(FilesOf(CardsOf(out.built)))

\* A parse failure and a composition failure, each followed by a file that
\* yields a card.
C4_Witness ==
    /\ pc = "done"
    /\ \E a, b \in 1..Len(printed) :
          /\ printed[a].msg = "Header format error"
          /\ printed[b].msg = "ValueError"
          /\ \E c \in 1..Len(out.built) :
                /\ IsCard(out.built[c])
                /\ out.built[c].file > printed[a].file
                /\ out.built[c].file > printed[b].file

====
